---- MODULE Spec2Model ----
(***************************************************************************)
(* Model of syn's `Spanned` blanket implementation (src/spanned.rs).       *)
(*                                                                         *)
(* `span()` tokenizes a syntax tree node into a call-local accumulator and *)
(* reduces the token spans to one Span.  Both cfg variants of the method   *)
(* are modelled; the build flag `procmacro2_semver_exempt` is fixed when   *)
(* the program starts.  Every call is a small process stepping through     *)
(* the method's statements so that calls can be interleaved.               *)
(***************************************************************************)
EXTENDS Integers, Sequences, FiniteSets, TLC

\* ------------------------------------------------------------------ bounds
MaxLen == 3       \* most tokens a node emits (sequential specification)
MaxConcLen == 2   \* most tokens a node emits (concurrent specification)
MaxPos == 1       \* source positions are 0..MaxPos
MaxCalls == 2     \* how often the sequential caller invokes span() on its node

\* ------------------------------------------------- proc_macro2 collaborator
Files == {"a.rs", "b.rs"}

\* proc_macro2::Span: a range lo..hi of one source file.
Locations == {l \in [file : Files, lo : 0..MaxPos, hi : 0..MaxPos] : l.lo <= l.hi}

\* The values Span::call_site() can have: an empty range at the start of
\* the file the macro was invoked from.
CallSites == {l \in Locations : l.lo = 0 /\ l.hi = 0}

Min(a, b) == IF a <= b THEN a ELSE b
Max(a, b) == IF a >= b THEN a ELSE b

\* Span::join: Option<Span>, <<>> is None and <<l>> is Some(l).  Spans of
\* different origin do not join; otherwise the result covers both.
join(a, b) ==
    IF a.file = b.file
    THEN << [file |-> a.file, lo |-> Min(a.lo, b.lo), hi |-> Max(a.hi, b.hi)] >>
    ELSE << >>

\* Token sequences of at most n tokens, each token given by its span.
TokenStreams(L, n) == UNION {[1..k -> L] : k \in 0..n}

\* Spans used for the nodes of the concurrent specification: the first and
\* the last position of every file.
EdgeLocations == {l \in Locations : l.lo = l.hi /\ l.lo \in {0, MaxPos}}

\* ------------------------------------------------------------------- state
Calls == {1, 2}

VARIABLES
    procmacro2_semver_exempt, \* cfg flag selecting the variant of span()
    call_site,                \* the value of Span::call_site()
    node,                     \* node[c]: the token spans `self` of call c emits
    calls_left,               \* how often caller c still invokes span()
    pc,                       \* position of call c inside span()
    tokens,                   \* local `tokens` / `token_stream` of call c
    iter,                     \* local `iter`: index of the next token
    span,                     \* local `span` (<<>> before it is assigned)
    ret,                      \* value returned by the current call (<<>>: none)
    joins,                    \* join calls made by the current call, in order
    returned                  \* per caller: what its completed calls returned

vars == << procmacro2_semver_exempt, call_site, node, calls_left, pc, tokens,
           iter, span, ret, joins, returned >>

InitLocals ==
    /\ pc = [c \in Calls |-> "idle"]
    /\ tokens = [c \in Calls |-> << >>]
    /\ iter = [c \in Calls |-> 1]
    /\ span = [c \in Calls |-> << >>]
    /\ ret = [c \in Calls |-> << >>]
    /\ joins = [c \in Calls |-> << >>]
    /\ returned = [c \in Calls |-> << >>]

\* One caller invoking span() MaxCalls times on one node.
Init ==
    /\ procmacro2_semver_exempt \in BOOLEAN
    /\ call_site \in CallSites
    /\ \E toks \in TokenStreams(Locations, MaxLen) :
           node = [c \in Calls |-> IF c = 1 THEN toks ELSE << >>]
    /\ calls_left = [c \in Calls |-> IF c = 1 THEN MaxCalls ELSE 0]
    /\ InitLocals

\* One caller invoking span() once on one node.
InitOnce ==
    /\ procmacro2_semver_exempt \in BOOLEAN
    /\ call_site \in CallSites
    /\ \E toks \in TokenStreams(Locations, MaxLen) :
           node = [c \in Calls |-> IF c = 1 THEN toks ELSE << >>]
    /\ calls_left = [c \in Calls |-> IF c = 1 THEN 1 ELSE 0]
    /\ InitLocals

\* Two callers, each invoking span() once on its own node.
InitConc ==
    /\ procmacro2_semver_exempt \in BOOLEAN
    /\ call_site \in CallSites
    /\ node \in [Calls -> TokenStreams(EdgeLocations, MaxConcLen)]
    /\ calls_left = [c \in Calls |-> 1]
    /\ InitLocals

\* ------------------------------------------------- span() as a function

\* The loop of the procmacro2_semver_exempt variant: fold the remaining
\* token spans into `acc`, keeping `acc` whenever a join is None.
RECURSIVE join_loop(_, _)
join_loop(acc, rest) ==
    IF rest = << >>
    THEN acc
    ELSE LET joined == join(acc, Head(rest))
         IN join_loop(IF joined # << >> THEN joined[1] ELSE acc, Tail(rest))

\* What one call of span() on a node emitting `toks` returns when nothing
\* else runs: the variant is chosen by the cfg flag.
resolve(toks) ==
    IF toks = << >>
    THEN call_site
    ELSE IF procmacro2_semver_exempt
    THEN join_loop(Head(toks), Tail(toks))
    ELSE Head(toks)

\* ----------------------------------------------------------------- actions

\* Faulty entry: the accumulator is one process-wide buffer, so tokenizing
\* for one call replaces the tokens every other call is iterating.
to_tokens_shared(c) ==
    /\ pc[c] \in {"idle", "done"}
    /\ calls_left[c] > 0
    /\ calls_left' = [calls_left EXCEPT ![c] = @ - 1]
    /\ tokens' = [d \in Calls |-> node[c]]
    /\ iter' = [iter EXCEPT ![c] = 1]
    /\ span' = [span EXCEPT ![c] = << >>]
    /\ ret' = [ret EXCEPT ![c] = << >>]
    /\ joins' = [joins EXCEPT ![c] = << >>]
    /\ pc' = [pc EXCEPT ![c] = "first"]
    /\ UNCHANGED << procmacro2_semver_exempt, call_site, node, returned >>

\* Faulty entry: tokenizing moves the tokens out of the node.
to_tokens_drain(c) ==
    /\ pc[c] \in {"idle", "done"}
    /\ calls_left[c] > 0
    /\ calls_left' = [calls_left EXCEPT ![c] = @ - 1]
    /\ tokens' = [tokens EXCEPT ![c] = node[c]]
    /\ node' = [node EXCEPT ![c] = << >>]
    /\ iter' = [iter EXCEPT ![c] = 1]
    /\ span' = [span EXCEPT ![c] = << >>]
    /\ ret' = [ret EXCEPT ![c] = << >>]
    /\ joins' = [joins EXCEPT ![c] = << >>]
    /\ pc' = [pc EXCEPT ![c] = "first"]
    /\ UNCHANGED << procmacro2_semver_exempt, call_site, returned >>

\* Entry of span(): Tokens::new(), self.to_tokens(&mut tokens),
\* TokenStream::from(tokens), into_iter().
to_tokens(c) ==
    /\ pc[c] \in {"idle", "done"}
    /\ calls_left[c] > 0
    /\ calls_left' = [calls_left EXCEPT ![c] = @ - 1]
    /\ tokens' = [tokens EXCEPT ![c] = node[c]]
    /\ iter' = [iter EXCEPT ![c] = 1]
    /\ span' = [span EXCEPT ![c] = << >>]
    /\ ret' = [ret EXCEPT ![c] = << >>]
    /\ joins' = [joins EXCEPT ![c] = << >>]
    /\ pc' = [pc EXCEPT ![c] = "first"]
    /\ UNCHANGED << procmacro2_semver_exempt, call_site, node, returned >>

\* The value `v` leaves span().
Return(c, v) ==
    /\ ret' = [ret EXCEPT ![c] = << v >>]
    /\ returned' = [returned EXCEPT ![c] = Append(@, [toks |-> tokens[c], loc |-> v])]
    /\ pc' = [pc EXCEPT ![c] = "done"]

\* Faulty match: an empty node yields a default span, not the call site.
first_default(c) ==
    /\ pc[c] = "first"
    /\ IF iter[c] > Len(tokens[c])
       THEN /\ Return(c, [file |-> "a.rs", lo |-> 0, hi |-> 0])
            /\ UNCHANGED << iter, span >>
       ELSE IF procmacro2_semver_exempt
       THEN /\ span' = [span EXCEPT ![c] = << tokens[c][iter[c]] >>]
            /\ iter' = [iter EXCEPT ![c] = @ + 1]
            /\ pc' = [pc EXCEPT ![c] = "for"]
            /\ UNCHANGED << ret, returned >>
       ELSE /\ Return(c, tokens[c][iter[c]])
            /\ iter' = [iter EXCEPT ![c] = @ + 1]
            /\ UNCHANGED span
    /\ UNCHANGED << procmacro2_semver_exempt, call_site, node, calls_left,
                    tokens, joins >>

\* Faulty match: the joining loop runs whatever the cfg flag says.
first_always_join(c) ==
    /\ pc[c] = "first"
    /\ IF iter[c] > Len(tokens[c])
       THEN /\ Return(c, call_site)
            /\ UNCHANGED << iter, span >>
       ELSE /\ span' = [span EXCEPT ![c] = << tokens[c][iter[c]] >>]
            /\ iter' = [iter EXCEPT ![c] = @ + 1]
            /\ pc' = [pc EXCEPT ![c] = "for"]
            /\ UNCHANGED << ret, returned >>
    /\ UNCHANGED << procmacro2_semver_exempt, call_site, node, calls_left,
                    tokens, joins >>

\* Faulty match: the running span starts as the call site and the first
\* token is joined to it like every other token.
first_seed_call_site(c) ==
    /\ pc[c] = "first"
    /\ IF iter[c] > Len(tokens[c])
       THEN /\ Return(c, call_site)
            /\ UNCHANGED << iter, span >>
       ELSE IF procmacro2_semver_exempt
       THEN /\ span' = [span EXCEPT ![c] = << call_site >>]
            /\ pc' = [pc EXCEPT ![c] = "for"]
            /\ UNCHANGED << iter, ret, returned >>
       ELSE /\ Return(c, tokens[c][iter[c]])
            /\ iter' = [iter EXCEPT ![c] = @ + 1]
            /\ UNCHANGED span
    /\ UNCHANGED << procmacro2_semver_exempt, call_site, node, calls_left,
                    tokens, joins >>

\* `match iter.next()` of either variant.
first(c) ==
    /\ pc[c] = "first"
    /\ IF iter[c] > Len(tokens[c])
       THEN \* None => Span::call_site()
            /\ Return(c, call_site)
            /\ UNCHANGED << iter, span >>
       ELSE IF procmacro2_semver_exempt
       THEN \* Some(tt) => tt.span starts the running span
            /\ span' = [span EXCEPT ![c] = << tokens[c][iter[c]] >>]
            /\ iter' = [iter EXCEPT ![c] = @ + 1]
            /\ pc' = [pc EXCEPT ![c] = "for"]
            /\ UNCHANGED << ret, returned >>
       ELSE \* Some(tt) => tt.span is returned
            /\ Return(c, tokens[c][iter[c]])
            /\ iter' = [iter EXCEPT ![c] = @ + 1]
            /\ UNCHANGED span
    /\ UNCHANGED << procmacro2_semver_exempt, call_site, node, calls_left,
                    tokens, joins >>

\* Faulty iteration: a successful join is computed and thrown away.
for_tt_drop(c) ==
    /\ pc[c] = "for"
    /\ iter[c] <= Len(tokens[c])
    /\ LET tt == tokens[c][iter[c]]
           joined == join(span[c][1], tt)
       IN /\ span' = [span EXCEPT ![c] = @]
          /\ joins' = [joins EXCEPT ![c] =
                 Append(@, [i |-> iter[c], a |-> span[c][1], b |-> tt, r |-> joined])]
    /\ iter' = [iter EXCEPT ![c] = @ + 1]
    /\ UNCHANGED << procmacro2_semver_exempt, call_site, node, calls_left, pc,
                    tokens, ret, returned >>

\* Faulty iteration: a failed join restarts the running span at the token.
for_tt_reset(c) ==
    /\ pc[c] = "for"
    /\ iter[c] <= Len(tokens[c])
    /\ LET tt == tokens[c][iter[c]]
           joined == join(span[c][1], tt)
       IN /\ span' = [span EXCEPT ![c] = IF joined # << >> THEN joined ELSE << tt >>]
          /\ joins' = [joins EXCEPT ![c] =
                 Append(@, [i |-> iter[c], a |-> span[c][1], b |-> tt, r |-> joined])]
    /\ iter' = [iter EXCEPT ![c] = @ + 1]
    /\ UNCHANGED << procmacro2_semver_exempt, call_site, node, calls_left, pc,
                    tokens, ret, returned >>

\* Faulty iteration: the token span replaces the running span.
for_tt_replace(c) ==
    /\ pc[c] = "for"
    /\ iter[c] <= Len(tokens[c])
    /\ LET tt == tokens[c][iter[c]]
           joined == join(span[c][1], tt)
       IN /\ span' = [span EXCEPT ![c] = << tt >>]
          /\ joins' = [joins EXCEPT ![c] =
                 Append(@, [i |-> iter[c], a |-> span[c][1], b |-> tt, r |-> joined])]
    /\ iter' = [iter EXCEPT ![c] = @ + 1]
    /\ UNCHANGED << procmacro2_semver_exempt, call_site, node, calls_left, pc,
                    tokens, ret, returned >>

\* Faulty iteration: the join is unwrapped and a None panics.
for_tt_unwrap(c) ==
    /\ pc[c] = "for"
    /\ iter[c] <= Len(tokens[c])
    /\ LET tt == tokens[c][iter[c]]
           joined == join(span[c][1], tt)
       IN /\ span' = [span EXCEPT ![c] = joined]
          /\ joins' = [joins EXCEPT ![c] =
                 Append(@, [i |-> iter[c], a |-> span[c][1], b |-> tt, r |-> joined])]
          /\ pc' = [pc EXCEPT ![c] = IF joined # << >> THEN @ ELSE "panic"]
    /\ iter' = [iter EXCEPT ![c] = @ + 1]
    /\ UNCHANGED << procmacro2_semver_exempt, call_site, node, calls_left, 
                    tokens, ret, returned >>

\* One iteration of `for tt in iter`.
for_tt(c) ==
    /\ pc[c] = "for"
    /\ iter[c] <= Len(tokens[c])
    /\ LET tt == tokens[c][iter[c]]
           joined == join(span[c][1], tt)
       IN /\ span' = [span EXCEPT ![c] = IF joined # << >> THEN joined ELSE @]
          /\ joins' = [joins EXCEPT ![c] =
                 Append(@, [i |-> iter[c], a |-> span[c][1], b |-> tt, r |-> joined])]
    /\ iter' = [iter EXCEPT ![c] = @ + 1]
    /\ UNCHANGED << procmacro2_semver_exempt, call_site, node, calls_left, pc,
                    tokens, ret, returned >>

\* The loop is exhausted: the trailing `span` expression is returned.
return_span(c) ==
    /\ pc[c] = "for"
    /\ iter[c] > Len(tokens[c])
    /\ Return(c, span[c][1])
    /\ UNCHANGED << procmacro2_semver_exempt, call_site, node, calls_left,
                    tokens, iter, span, joins >>

Next ==
    \E c \in Calls :
        \/ to_tokens(c)
        \/ first(c)
        \/ for_tt(c)
        \/ return_span(c)

Spec == Init /\ [][Next]_vars

SpecConc == InitConc /\ [][Next]_vars
\* span() is synchronous: the body of a started call keeps running until it
\* returns.
FairSpec == InitOnce /\ [][Next]_vars /\ \A c \in Calls : WF_vars(first(c) \/ for_tt(c) \/ return_span(c))

\* ------------------------------------------------------ notions of the claims
Done(c) == pc[c] = "done"

\* a covers b: same file and b's range lies inside a's.
Covers(a, b) == a.file = b.file /\ a.lo <= b.lo /\ b.hi <= a.hi

MutuallyJoinable(toks) ==
    \A i, j \in 1..Len(toks) : join(toks[i], toks[j]) # << >>

\* join(...join(join(L1, L2), L3)..., Ln) for mutually joinable spans.
RECURSIVE FoldJoin(_)
FoldJoin(toks) ==
    IF Len(toks) = 1
    THEN toks[1]
    ELSE join(FoldJoin(SubSeq(toks, 1, Len(toks) - 1)), toks[Len(toks)])[1]

RemoveAt(toks, i) == SubSeq(toks, 1, i - 1) \o SubSeq(toks, i + 1, Len(toks))

IsPermutation(s, t) ==
    /\ Len(s) = Len(t)
    /\ \E p \in [1..Len(s) -> 1..Len(s)] :
           /\ \A i, j \in 1..Len(s) : i # j => p[i] # p[j]
           /\ \A i \in 1..Len(s) : t[i] = s[p[i]]

\* join is commutative and associative on the spans of toks.
JoinCommAssoc(toks) ==
    \A i, j, k \in 1..Len(toks) :
        /\ join(toks[i], toks[j]) = join(toks[j], toks[i])
        /\ join(join(toks[i], toks[j])[1], toks[k])
               = join(toks[i], join(toks[j], toks[k])[1])

\* ---------------------------------------------------------------- claims

\* C1: a call on a node that emits no tokens returns the call-site span,
\* with the cfg flag on and off, and makes no join call.
C1_EmptyReturnsCallSite ==
    \A c \in Calls :
        tokens[c] = << >> =>
            /\ joins[c] = << >>
            /\ Done(c) => ret[c] = << call_site >>

C1_Witness ==
    /\ Done(1)
    /\ tokens[1] = << >>
    /\ ret[1] = << call_site >>
    /\ call_site.file = "b.rs"

\* C2: the span returned for a non-empty node covers the span of every
\* token the node emitted, with the cfg flag on and off; for an empty node
\* it is the call-site span.
C2_CoversEveryToken ==
    \A c \in Calls :
        Done(c) =>
            IF tokens[c] = << >>
            THEN ret[c] = << call_site >>
            ELSE \A i \in 1..Len(tokens[c]) : Covers(ret[c][1], tokens[c][i])

\* C3: with the cfg flag on and all token spans mutually joinable, the call
\* returns the left-to-right fold of join over all token spans: every token
\* after the first is joined, in emission order, and every join is kept.
C3_LeftFoldOfJoin ==
    \A c \in Calls :
        (/\ procmacro2_semver_exempt
         /\ Done(c)
         /\ tokens[c] # << >>
         /\ MutuallyJoinable(tokens[c]))
        => /\ ret[c] = << FoldJoin(tokens[c]) >>
           /\ Len(joins[c]) = Len(tokens[c]) - 1
           /\ \A k \in 1..Len(joins[c]) :
                  /\ joins[c][k].i = k + 1
                  /\ joins[c][k].r # << >>

C3_Witness ==
    /\ procmacro2_semver_exempt
    /\ Done(1)
    /\ Len(tokens[1]) = 3
    /\ MutuallyJoinable(tokens[1])
    /\ tokens[1][1] # tokens[1][3]
    /\ ret[1] = << join(join(tokens[1][1], tokens[1][2])[1], tokens[1][3])[1] >>
    /\ ret[1] # << tokens[1][1] >>

\* C4: with the cfg flag on, a failed join of token i leaves the running
\* span as it was and the remaining tokens are still processed, so the call
\* returns what it returns for the same sequence without token i.
C4_FailedJoinSkipsToken ==
    \A c \in Calls :
        procmacro2_semver_exempt =>
            \A k \in 1..Len(joins[c]) :
                joins[c][k].r = << >> =>
                    /\ joins[c][k].i > 1
                    /\ IF k < Len(joins[c])
                       THEN joins[c][k + 1].a = joins[c][k].a
                       ELSE span[c] = << joins[c][k].a >>
                    /\ Done(c) =>
                           /\ Len(joins[c]) = Len(tokens[c]) - 1
                           /\ ret[c] = << resolve(RemoveAt(tokens[c], joins[c][k].i)) >>

\* Scenario [L1, L2, L3]: the join with L2 fails, the one with L3 succeeds.
C4_Witness ==
    /\ procmacro2_semver_exempt
    /\ Done(1)
    /\ Len(tokens[1]) = 3
    /\ joins[1][1].r = << >>
    /\ joins[1][2].r # << >>
    /\ ret[1] = join(tokens[1][1], tokens[1][3])
    /\ ret[1] # << tokens[1][1] >>

C6_StaysTotal ==
    \A c \in Calls :
        /\ pc[c] \in {"idle", "first", "for", "done"}
        /\ iter[c] <= Len(tokens[c]) + 1
        /\ Len(joins[c]) < iter[c]
        /\ \A k \in 1..Len(joins[c]) : joins[c][k].i = k + 1
        /\ Done(c) => (Len(ret[c]) = 1 /\ ret[c][1] \in Locations)

\* C6: every call, on an empty node or not, with the cfg flag on or off,
\* returns a span: it never reaches an error, takes each token at most once
\* and, once started, ends, also when every join it attempts fails.
C6_Total ==
    /\ []C6_StaysTotal
    /\ \A c \in Calls : (pc[c] = "first") ~> Done(c)

C6_Witness ==
    /\ procmacro2_semver_exempt
    /\ Done(1)
    /\ Len(tokens[1]) = 3
    /\ Len(joins[1]) = 2
    /\ \A k \in 1..2 : joins[1][k].r = << >>
    /\ ret[1] = << tokens[1][1] >>

\* C7: the call-site span is never an operand of join in any call, also
\* when the node emits tokens whose span is the call-site span.
C7_CallSiteNeverJoined ==
    \A c \in Calls :
        \A k \in 1..Len(joins[c]) :
            joins[c][k].a # call_site /\ joins[c][k].b # call_site

\* C7 as amended: a call that falls back to the call-site span makes no
\* join call, and the operands of every join call are the span of the token
\* at hand and the running span of the tokens before it: the call-site span
\* reaches join only through the spans of the node's tokens.
C7_OnlyTokenSpansJoined ==
    \A c \in Calls :
        /\ (Done(c) /\ tokens[c] = << >>) => (ret[c] = << call_site >> /\ joins[c] = << >>)
        /\ \A k \in 1..Len(joins[c]) :
               LET e == joins[c][k]
               IN /\ e.i \in 2..Len(tokens[c])
                  /\ e.b = tokens[c][e.i]
                  /\ e.a = join_loop(tokens[c][1], SubSeq(tokens[c], 2, e.i - 1))

C7_Witness ==
    /\ procmacro2_semver_exempt
    /\ Done(1)
    /\ Len(tokens[1]) = 2
    /\ tokens[1][1] = call_site
    /\ tokens[1][2] # call_site
    /\ joins[1][1].a = call_site
    /\ joins[1][1].r # << >>

\* C8: under every interleaving of the steps of two calls, each call
\* works on its own tokens and returns what it returns when run alone.
C8_InterleavingFree ==
    \A c \in Calls :
        /\ pc[c] # "idle" => tokens[c] = node[c]
        /\ Done(c) => ret[c] = << resolve(node[c]) >>

C8_Witness ==
    /\ procmacro2_semver_exempt
    /\ node[1] # node[2]
    /\ Len(node[1]) = 2 /\ Len(node[2]) = 2
    /\ Done(1)
    /\ joins[1][1].r # << >>
    /\ ret[1] = << resolve(node[1]) >>
    /\ pc[2] = "for"
    /\ iter[2] = 2

C10_SameEveryCall ==
    \A c \in Calls :
        \A k \in 1..Len(returned[c]) :
            /\ returned[c][k].toks = node[c]
            /\ returned[c][k].loc = returned[c][1].loc

\* C10: two calls on the same node return the same span: the node emits the
\* same tokens both times, and no call changes the node or the call-site
\* span.
C10_Idempotent ==
    /\ []C10_SameEveryCall
    /\ [][node' = node /\ call_site' = call_site]_vars

C10_Witness ==
    /\ procmacro2_semver_exempt
    /\ Len(returned[1]) = 2
    /\ Len(node[1]) = 3
    /\ returned[1][2].loc = returned[1][1].loc
    /\ returned[1][2].loc # node[1][1]
    /\ Done(1)

====
